---- MODULE Spec2Model ----
(***************************************************************************)
(* A model of zdns's command-line front end, src/zdns/main.go: main()      *)
(* builds the zdns.GlobalConf `gc` from the command line, validates it,    *)
(* and hands it to the lookup module and the lookup engine.                *)
(*                                                                         *)
(* A Go string is modelled as a sequence of one-character strings, so that *)
(* strings.Split, strings.Trim, strings.TrimSpace, strings.Contains and    *)
(* strings.ToUpper are computed and not assumed.  log.Fatal and the        *)
(* ExitOnError flag set end the process: pc = "exit" with `failure` naming *)
(* the message.  A nil dereference ends it the same way (a panic).         *)
(***************************************************************************)
EXTENDS Integers, Sequences, FiniteSets, TLC

VARIABLES
    pc,       \* the position of main()
    argv,     \* os.Args, as the values its flags and positional arguments carry
    gc,       \* var gc zdns.GlobalConf
    loc,      \* main's locals: the flag pointers, factory, flags.Args()
    proc,     \* process-wide state: logrus level and output, GOMAXPROCS, math/rand seed
    env,      \* what the environment answered, once asked (files, stdin, the module)
    calls,    \* the hooks invoked so far, in order, each with the configuration passed
    failure   \* "" or the fatal message that ended the process

vars == <<pc, argv, gc, loc, proc, env, calls, failure>>

----------------------------------------------------------------------------
(* Bounds of the checked input space.                                      *)

\* most leftover positional arguments on the command line
MaxArgs == 2
\* longest --name-servers and --include-fields string
MaxStrLen == 4
\* longest name-server file content
MaxFileLen == 4

----------------------------------------------------------------------------
(* Strings.                                                                *)

Lower == <<"a","b","c","d","e","f","g","h","i","j","k","l","m",
           "n","o","p","q","r","s","t","u","v","w","x","y","z">>
Upper == <<"A","B","C","D","E","F","G","H","I","J","K","L","M",
           "N","O","P","Q","R","S","T","U","V","W","X","Y","Z">>

\* unicode.IsSpace, over the characters of the model
WhiteSpace == {" ", "\n", "\t", "\r"}

\* strings.ToUpper
ToUpperChar(c) ==
    IF \E i \in 1..26 : Lower[i] = c
    THEN Upper[CHOOSE i \in 1..26 : Lower[i] = c]
    ELSE c

ToUpper(s) == [i \in 1..Len(s) |-> ToUpperChar(s[i])]

\* strings.Index for a one-character separator: 0 when absent (Go: -1)
Index(s, c) ==
    IF \E i \in 1..Len(s) : s[i] = c
    THEN CHOOSE i \in 1..Len(s) : s[i] = c /\ \A j \in 1..(i-1) : s[j] # c
    ELSE 0

\* strings.Contains
Contains(s, c) == Index(s, c) # 0

\* strings.Split(s, sep): cut at each separator in turn, the rest is the last piece
RECURSIVE Split(_, _)
Split(s, sep) ==
    LET m == Index(s, sep) IN
    IF m = 0 THEN <<s>>
    ELSE <<SubSeq(s, 1, m - 1)>> \o Split(SubSeq(s, m + 1, Len(s)), sep)

RECURSIVE TrimLeft(_, _)
TrimLeft(s, cutset) ==
    IF s # <<>> /\ Head(s) \in cutset THEN TrimLeft(Tail(s), cutset) ELSE s

RECURSIVE TrimRight(_, _)
TrimRight(s, cutset) ==
    IF s # <<>> /\ s[Len(s)] \in cutset
    THEN TrimRight(SubSeq(s, 1, Len(s) - 1), cutset)
    ELSE s

\* strings.Trim(s, cutset): both ends
Trim(s, cutset) == TrimRight(TrimLeft(s, cutset), cutset)

\* strings.TrimSpace
TrimSpace(s) == Trim(s, WhiteSpace)

\* all strings over `alphabet` of length at most n
RECURSIVE Strings(_, _)
Strings(alphabet, n) ==
    IF n = 0 THEN {<<>>}
    ELSE LET shorter == Strings(alphabet, n - 1) IN
         shorter \cup {Append(s, c) : s \in shorter, c \in alphabet}

----------------------------------------------------------------------------
(* Literals of main.go.                                                    *)

StdinSentinel == <<"-">>
DefaultPort == <<":", "5", "3">>
ResultVerbosities ==
    { <<"s","h","o","r","t">>, <<"n","o","r","m","a","l">>,
      <<"l","o","n","g">>, <<"t","r","a","c","e">> }

\* time.Second, in nanoseconds
Second == 1000000000

\* the class switch: upper-cased name -> dns class, "" when unknown
ClassOf(name) ==
    CASE name \in { <<"I","N","E","T">>, <<"I","N">> }           -> "ClassINET"
      [] name \in { <<"C","S","N","E","T">>, <<"C","S">> }       -> "ClassCSNET"
      [] name \in { <<"C","H","A","O","S">>, <<"C","H">> }       -> "ClassCHAOS"
      [] name \in { <<"H","E","S","I","O","D">>, <<"H","S">> }   -> "ClassHESIOD"
      [] name = <<"N","O","N","E">>                               -> "ClassNONE"
      [] name = <<"A","N","Y">>                                   -> "ClassANY"
      [] OTHER                                                    -> ""

\* the verbosity switch: level -> logrus level, "" when unknown
LogLevelOf(v) ==
    CASE v = 1 -> "FatalLevel"
      [] v = 2 -> "ErrorLevel"
      [] v = 3 -> "WarnLevel"
      [] v = 4 -> "InfoLevel"
      [] v = 5 -> "DebugLevel"
      [] OTHER -> ""

----------------------------------------------------------------------------
(* The collaborators of package zdns, which main.go only calls.            *)

\* zdns.RootServers: the 13 root name servers a .. m, each with its port
RootServers == [i \in 1..13 |-> <<Upper[i]>> \o DefaultPort]

\* zdns.GetLookup: the registered modules, by upper-cased name
RegisteredLookups == { <<"A">>, <<"A","X","F","R">>, <<"M","X">> }

\* a nil LookupFactory
NilFactory == <<>>

GetLookup(name) == IF name \in RegisteredLookups THEN name ELSE NilFactory

\* zdns.GetDNSServers(path): an error, or the servers of the resolver configuration
ResolvConfResults ==
    { [ok |-> FALSE, servers |-> <<>>],
      [ok |-> TRUE,  servers |-> << <<"8",":","5","3">> >>],
      [ok |-> TRUE,  servers |-> << <<"8",":","5","3">>, <<"9",":","5","3">> >>] }

\* ioutil.ReadFile(path): an error, or the content
FileAlphabet == {"a", ":", " ", ",", "\n"}
ReadFileResults ==
    {[ok |-> FALSE, content |-> <<>>]}
        \cup {[ok |-> TRUE, content |-> c] : c \in Strings(FileAlphabet, MaxFileLen)}

\* os.Stdin.Stat(): a character device, another kind of file, or an error
\* (standard input closed), which main ignores
StdinStats == {"chardev", "other", "error"}

\* what a hook returns
HookResults == {"nil", "error"}

\* flag.Parse under flag.ExitOnError: it returns, or it ends the process
ParseResults == {"ok", "error"}

\* os.OpenFile of the log file
OpenResults == {"ok", "error"}

\* factory.AllowStdIn()
AllowStdInResults == {"yes", "no"}

----------------------------------------------------------------------------
(* The state at line 72: the flags are registered, nothing is parsed.      *)

\* the zero GlobalConf with the defaults the flag registrations store in it
GlobalConfDefaults ==
    [ Threads |-> 1000, GoMaxProcs |-> 0, NamePrefix |-> <<>>,
      AlexaFormat |-> FALSE, IterativeResolution |-> FALSE,
      InputFilePath |-> StdinSentinel, OutputFilePath |-> <<"-">>,
      MetadataFilePath |-> <<>>, LogFilePath |-> <<>>,
      ResultVerbosity |-> <<"n","o","r","m","a","l">>, IncludeInOutput |-> <<>>,
      Verbosity |-> 3, Retries |-> 1, MaxDepth |-> 10, CacheSize |-> 10000,
      InputHandler |-> <<"f","i","l","e">>, OutputHandler |-> <<"f","i","l","e">>,
      TCPOnly |-> FALSE, UDPOnly |-> FALSE,
      Module |-> <<>>, Timeout |-> 0, IterationTimeout |-> 0, Class |-> "",
      NameServers |-> <<>>, NameServersSpecified |-> FALSE, TimeFormat |-> "",
      OutputGroups |-> <<>>, PassedName |-> <<>> ]

LocalDefaults ==
    [ servers_string |-> <<>>, config_file |-> "/etc/resolv.conf",
      timeout |-> 15, iterationTimeout |-> 4,
      class_string |-> <<"I","N","E","T">>, nanoSeconds |-> FALSE,
      factory |-> NilFactory, args |-> <<>> ]

\* logrus's standard logger, the Go runtime and math/rand before main touches them
ProcessDefaults ==
    [ logLevel |-> "InfoLevel", logOutput |-> "stderr",
      gomaxprocs |-> 0, gomaxprocsCalls |-> 0, seedCalls |-> 0 ]

EnvUnasked ==
    [ parse |-> "", logOpen |-> "", resolv |-> "", readFile |-> "",
      fileContent |-> <<>>, resolvServers |-> <<>>,
      stdin |-> "", allowStdIn |-> "" ]

\* a command line that names module A and passes every modelled flag at its default
ArgvDefaults ==
    [ hasModule |-> TRUE, module |-> <<"a">>,
      logFile |-> <<>>, verbosity |-> 3, timeout |-> 2, iterationTimeout |-> 1,
      class |-> <<"I","N","E","T">>, nameServers |-> <<>>, iterative |-> FALSE,
      nanoseconds |-> FALSE, goProcesses |-> 0, tcpOnly |-> FALSE, udpOnly |-> FALSE,
      resultVerbosity |-> <<"n","o","r","m","a","l">>, includeFields |-> <<>>,
      inputFile |-> StdinSentinel, extra |-> <<>> ]

\* i leftover positional arguments
ExtraArgs(i) == [k \in 1..i |-> <<"n", Lower[k]>>]

InitWith(a) ==
    /\ pc = "start"
    /\ argv = a
    /\ gc = GlobalConfDefaults
    /\ loc = LocalDefaults
    /\ proc = ProcessDefaults
    /\ env = EnvUnasked
    /\ calls = <<>>
    /\ failure = ""

----------------------------------------------------------------------------
(* main(), statement by statement.                                         *)

\* log.Fatal, flag.ExitOnError, or a panic: the process ends
Fatal(msg) ==
    /\ pc' = "exit"
    /\ failure' = msg

Goto(next) ==
    /\ pc' = next
    /\ failure' = failure

\* what flags.Parse stores: each flag's value at its variable
ParsedConf(g, a) ==
    [ g EXCEPT !.GoMaxProcs = a.goProcesses,
               !.IterativeResolution = a.iterative,
               !.InputFilePath = a.inputFile,
               !.LogFilePath = a.logFile,
               !.ResultVerbosity = a.resultVerbosity,
               !.IncludeInOutput = a.includeFields,
               !.Verbosity = a.verbosity,
               !.TCPOnly = a.tcpOnly,
               !.UDPOnly = a.udpOnly ]

ParsedLocals(l, a) ==
    [ l EXCEPT !.servers_string = a.nameServers,
               !.timeout = a.timeout,
               !.iterationTimeout = a.iterationTimeout,
               !.class_string = a.class,
               !.nanoSeconds = a.nanoseconds,
               !.args = a.extra ]

\* flag.Parse takes an argument for a flag when it has at least two characters
\* and starts with '-'; it stops at the first argument that is not one
IsFlagArg(s) == Len(s) >= 2 /\ s[1] = "-"

\* lines 73-75
CheckModuleGiven ==
    /\ pc = "start"
    /\ IF ~argv.hasModule
       THEN Fatal("No lookup module specified")
       ELSE Goto("lookup")
    /\ UNCHANGED <<argv, gc, loc, proc, env, calls>>

\* lines 76-81
LookupModule ==
    /\ pc = "lookup"
    /\ LET name == ToUpper(argv.module)
           factory == GetLookup(name)
       IN  IF factory = NilFactory
           THEN IF IsFlagArg(argv.module)
                THEN \E r \in ParseResults :
                       /\ env' = [env EXCEPT !.parse = r]
                       /\ IF r = "error"
                          THEN /\ Fatal("flag parse error")
                               /\ gc' = [gc EXCEPT !.Module = name]
                               /\ loc' = loc
                          ELSE /\ Fatal("Invalid lookup module specified")
                               /\ gc' = [ParsedConf(gc, argv) EXCEPT !.Module = name]
                               /\ loc' = ParsedLocals(loc, argv)
                ELSE /\ Fatal("Invalid lookup module specified")
                     /\ gc' = [gc EXCEPT !.Module = name]
                     /\ UNCHANGED <<loc, env>>
           ELSE /\ Goto("parse")
                /\ gc' = [gc EXCEPT !.Module = name]
                /\ loc' = [loc EXCEPT !.factory = factory]
                /\ env' = env
    /\ UNCHANGED <<argv, proc, calls>>

\* lines 82-83
ParseFlags ==
    /\ pc = "parse"
    /\ \E r \in ParseResults :
         /\ env' = [env EXCEPT !.parse = r]
         /\ IF r = "error"
            THEN /\ Fatal("flag parse error")
                 /\ UNCHANGED <<gc, loc>>
            ELSE /\ Goto("logfile")
                 /\ gc' = ParsedConf(gc, argv)
                 /\ loc' = ParsedLocals(loc, argv)
    /\ UNCHANGED <<argv, proc, calls>>

\* lines 86-92
SetupLogFile ==
    /\ pc = "logfile"
    /\ IF gc.LogFilePath # <<>>
       THEN \E r \in OpenResults :
              /\ env' = [env EXCEPT !.logOpen = r]
              /\ IF r = "error"
                 THEN /\ Fatal("Unable to open log file")
                      /\ proc' = proc
                 ELSE /\ Goto("verbosity")
                      /\ proc' = [proc EXCEPT !.logOutput = "file"]
       ELSE /\ Goto("verbosity")
            /\ UNCHANGED <<proc, env>>
    /\ UNCHANGED <<argv, gc, loc, calls>>

\* lines 94-107
SetLogLevel ==
    /\ pc = "verbosity"
    /\ IF LogLevelOf(gc.Verbosity) = ""
       THEN /\ Fatal("Unknown verbosity level specified")
            /\ proc' = proc
       ELSE /\ Goto("timeouts")
            /\ proc' = [proc EXCEPT !.logLevel = LogLevelOf(gc.Verbosity)]
    /\ UNCHANGED <<argv, gc, loc, env, calls>>

\* time.Duration(time.Second * time.Duration(n))
SecondsToDuration(n) == Second * n

\* lines 109-110
SetTimeouts ==
    /\ pc = "timeouts"
    /\ gc' = [gc EXCEPT !.Timeout = SecondsToDuration(loc.timeout),
                        !.IterationTimeout = SecondsToDuration(loc.iterationTimeout)]
    /\ Goto("class")
    /\ UNCHANGED <<argv, loc, proc, env, calls>>

\* lines 112-128
SetClass ==
    /\ pc = "class"
    /\ LET class == ClassOf(ToUpper(loc.class_string)) IN
       IF class = ""
       THEN /\ Fatal("Unknown record class specified")
            /\ gc' = gc
       ELSE /\ Goto("nameservers")
            /\ gc' = [gc EXCEPT !.Class = class]
    /\ UNCHANGED <<argv, loc, proc, env, calls>>

\* AddDefaultPort without the TrimSpace of line 160
AddDefaultPort_Untrimmed(s) ==
    IF ~Contains(s, ":") THEN s \o DefaultPort ELSE s

\* lines 158-162: an entry without ':' is trimmed and given the default port
AddDefaultPort(s) ==
    IF ~Contains(s, ":") THEN TrimSpace(s) \o DefaultPort ELSE s

AddDefaultPorts(ns) == [i \in 1..Len(ns) |-> AddDefaultPort(ns[i])]

\* SplitFileContent without the Trim of line 154
SplitFileContent_Untrimmed(f) == Split(f, "\n")

\* line 154
SplitFileContent(f) == Split(Trim(f, {"\n"}), "\n")

\* line 156
SplitServerList(s) == Split(s, ",")

\* NameServerSource with --iterative tested before the designation
NameServerSource_IterativeFirst(servers, iterative) ==
    IF iterative THEN "root"
    ELSE IF servers = <<>> THEN "resolvconf"
    ELSE IF servers[1] = "@" THEN "file" ELSE "list"

\* lines 129, 132, 145: which of the sources the name servers are taken from
NameServerSource(servers, iterative) ==
    IF servers = <<>>
    THEN IF iterative THEN "root" ELSE "resolvconf"
    ELSE IF servers[1] = "@" THEN "file" ELSE "list"

\* lines 129-165
ResolveNameServers ==
    /\ pc = "nameservers"
    /\ LET source == NameServerSource(loc.servers_string, gc.IterativeResolution) IN
       CASE source = "root" ->
              /\ gc' = [gc EXCEPT !.NameServers = RootServers,
                                  !.NameServersSpecified = FALSE]
              /\ Goto("timeformat")
              /\ env' = env
         [] source = "resolvconf" ->
              \E r \in ResolvConfResults :
                /\ env' = [env EXCEPT !.resolv = IF r.ok THEN "ok" ELSE "error",
                                      !.resolvServers = r.servers]
                /\ IF ~r.ok
                   THEN /\ Fatal("Unable to fetch correct name servers")
                        /\ gc' = gc
                   ELSE /\ gc' = [gc EXCEPT !.NameServers = r.servers,
                                            !.NameServersSpecified = FALSE]
                        /\ Goto("timeformat")
         [] source = "file" ->
              \E f \in ReadFileResults :
                /\ env' = [env EXCEPT !.readFile = IF f.ok THEN "ok" ELSE "error",
                                      !.fileContent = f.content]
                /\ IF ~f.ok
                   THEN /\ Fatal("Unable to read file")
                        /\ gc' = gc
                   ELSE IF Len(f.content) = 0
                   THEN /\ Fatal("Emtpy file")
                        /\ gc' = gc
                   ELSE /\ gc' = [gc EXCEPT
                               !.NameServers = AddDefaultPorts(SplitFileContent(f.content)),
                               !.NameServersSpecified = TRUE]
                        /\ Goto("timeformat")
         [] source = "list" ->
              /\ gc' = [gc EXCEPT
                     !.NameServers = AddDefaultPorts(SplitServerList(loc.servers_string)),
                     !.NameServersSpecified = TRUE]
              /\ Goto("timeformat")
              /\ env' = env
    /\ UNCHANGED <<argv, loc, proc, calls>>

\* lines 166-170
SetTimeFormat ==
    /\ pc = "timeformat"
    /\ gc' = [gc EXCEPT !.TimeFormat =
                 IF loc.nanoSeconds THEN "RFC3339Nano" ELSE "RFC3339"]
    /\ Goto("goprocs")
    /\ UNCHANGED <<argv, loc, proc, env, calls>>

\* SetGoMaxProcs without the test of line 171
SetGoMaxProcs_Unchecked ==
    /\ pc = "goprocs"
    /\ Goto("transport")
    /\ proc' = IF gc.GoMaxProcs # 0
               THEN [proc EXCEPT !.gomaxprocs = gc.GoMaxProcs,
                                 !.gomaxprocsCalls = @ + 1]
               ELSE proc
    /\ UNCHANGED <<argv, gc, loc, env, calls>>

\* lines 171-176
SetGoMaxProcs ==
    /\ pc = "goprocs"
    /\ IF gc.GoMaxProcs < 0
       THEN /\ Fatal("Invalid argument for --go-processes")
            /\ proc' = proc
       ELSE /\ Goto("transport")
            /\ proc' = IF gc.GoMaxProcs # 0
                       THEN [proc EXCEPT !.gomaxprocs = gc.GoMaxProcs,
                                         !.gomaxprocsCalls = @ + 1]
                       ELSE proc
    /\ UNCHANGED <<argv, gc, loc, env, calls>>

\* CheckTransport without the test of line 177
CheckTransport_Unchecked ==
    /\ pc = "transport"
    /\ Goto("output")
    /\ UNCHANGED <<argv, gc, loc, proc, env, calls>>

\* lines 177-179
CheckTransport ==
    /\ pc = "transport"
    /\ IF gc.UDPOnly /\ gc.TCPOnly
       THEN Fatal("TCP Only and UDP Only are conflicting")
       ELSE Goto("output")
    /\ UNCHANGED <<argv, gc, loc, proc, env, calls>>

\* AppendGroups that leaves empty fields out
AppendGroups_EmptySkipped(outputGroups, tier, groups) ==
    Append(outputGroups, tier) \o SelectSeq(groups, LAMBDA g : g # <<>>)

\* lines 186-187: the two appends
AppendGroups(outputGroups, tier, groups) == Append(outputGroups, tier) \o groups

\* lines 181-187
ComposeOutputGroups ==
    /\ pc = "output"
    /\ LET groups == Split(gc.IncludeInOutput, ",") IN
       IF gc.ResultVerbosity \notin ResultVerbosities
       THEN /\ Fatal("Invalid result verbosity")
            /\ gc' = gc
       ELSE /\ Goto("args")
            /\ gc' = [gc EXCEPT !.OutputGroups =
                         AppendGroups(gc.OutputGroups, gc.ResultVerbosity, groups)]
    /\ UNCHANGED <<argv, loc, proc, env, calls>>

\* lines 189-198
CheckLeftoverArgs ==
    /\ pc = "args"
    /\ IF Len(loc.args) > 0
       THEN \E stat \in StdinStats :
              /\ env' = [env EXCEPT !.stdin = stat]
              /\ IF stat = "error"
                 THEN /\ Fatal("panic: nil pointer dereference")
                      /\ gc' = gc
                 ELSE IF stat = "chardev" /\ gc.InputFilePath = StdinSentinel
                         /\ Len(loc.args) = 1
                 THEN /\ Goto("seed")
                      /\ gc' = [gc EXCEPT !.PassedName = loc.args[1]]
                 ELSE /\ Fatal("Unused command line flags")
                      /\ gc' = gc
       ELSE /\ Goto("seed")
            /\ UNCHANGED <<gc, env>>
    /\ UNCHANGED <<argv, loc, proc, calls>>

\* SeedRand without the rand.Seed of line 201
SeedRand_Skipped ==
    /\ pc = "seed"
    /\ Goto("stdin")
    /\ UNCHANGED <<argv, gc, loc, proc, env, calls>>

\* line 201
SeedRand ==
    /\ pc = "seed"
    /\ proc' = [proc EXCEPT !.seedCalls = @ + 1]
    /\ Goto("stdin")
    /\ UNCHANGED <<argv, gc, loc, env, calls>>

\* lines 204-206
CheckStdInAllowed ==
    /\ pc = "stdin"
    /\ \E allow \in AllowStdInResults :
         /\ env' = [env EXCEPT !.allowStdIn = allow]
         /\ IF allow = "no" /\ gc.InputFilePath = StdinSentinel
            THEN Fatal("Specified module does not allow reading from stdin")
            ELSE Goto("initialize")
    /\ UNCHANGED <<argv, gc, loc, proc, calls>>

\* CallHook that goes on after an error
CallHook_ErrorIgnored(hook, conf, next, msg) ==
    /\ \E r \in HookResults :
         calls' = Append(calls, [hook |-> hook, conf |-> conf, result |-> r])
    /\ Goto(next)
    /\ UNCHANGED <<argv, gc, loc, proc, env>>

\* one hook call: it is recorded with the configuration it is given and what it
\* returned, and an error it returns is fatal
CallHook(hook, conf, next, msg) ==
    /\ \E r \in HookResults :
         /\ calls' = Append(calls, [hook |-> hook, conf |-> conf, result |-> r])
         /\ IF r = "error" THEN Fatal(msg) ELSE Goto(next)
    /\ UNCHANGED <<argv, gc, loc, proc, env>>

\* lines 209-211
Initialize ==
    /\ pc = "initialize"
    /\ CallHook("Initialize", <<gc>>, "dolookups", "Factory was unable to initialize")

\* lines 213-215
DoLookups ==
    /\ pc = "dolookups"
    /\ CallHook("DoLookups", <<gc>>, "finalize", "Unable to run lookups")

\* lines 217-219: Finalize takes no configuration
Finalize ==
    /\ pc = "finalize"
    /\ CallHook("Finalize", <<>>, "done", "Factory was unable to finalize")

Next ==
    \/ CheckModuleGiven
    \/ LookupModule
    \/ ParseFlags
    \/ SetupLogFile
    \/ SetLogLevel
    \/ SetTimeouts
    \/ SetClass
    \/ ResolveNameServers
    \/ SetTimeFormat
    \/ SetGoMaxProcs
    \/ CheckTransport
    \/ ComposeOutputGroups
    \/ CheckLeftoverArgs
    \/ SeedRand
    \/ CheckStdInAllowed
    \/ Initialize
    \/ DoLookups
    \/ Finalize

----------------------------------------------------------------------------
(* The command lines checked.                                              *)

\* the flags the validations read, each at valid and invalid values
FlagCommandLines ==
    { [ArgvDefaults EXCEPT
          !.hasModule = m[1], !.module = m[2],
          !.logFile = lf, !.verbosity = v,
          !.timeout = t[1], !.iterationTimeout = t[2],
          !.class = c,
          !.nameServers = n[1], !.iterative = n[2],
          !.goProcesses = g, !.tcpOnly = tcp, !.udpOnly = udp,
          !.resultVerbosity = rv,
          !.inputFile = inf, !.extra = ExtraArgs(k)] :
        m \in { <<FALSE, <<>> >>, <<TRUE, <<"a">> >>, <<TRUE, <<"z">> >>,
                <<TRUE, <<"-","h">> >> },
        lf \in { <<>>, <<"l">> },
        v \in {0, 3, 6},
        t \in { <<2, 1>>, <<-1, 1>>, <<2, -1>> },
        c \in { <<"i","n">>, <<"x">> },
        n \in { << <<>>, FALSE >>, << <<>>, TRUE >>, << <<"a">>, FALSE >> },
        g \in {-1, 0, 2},
        tcp \in BOOLEAN, udp \in BOOLEAN,
        rv \in { <<"n","o","r","m","a","l">>, <<"x">> },
        inf \in { StdinSentinel, <<"f">> },
        k \in 0..MaxArgs }

Init == \E a \in FlagCommandLines : InitWith(a)

Spec == Init /\ [][Next]_vars

\* every --name-servers string up to MaxStrLen, and a designated file, in both
\* resolution modes; the other flags at their defaults
ServerAlphabet == {"a", ":", " ", ",", "\n"}
NameServerCommandLines ==
    { [ArgvDefaults EXCEPT !.nameServers = s, !.iterative = it] :
        s \in Strings(ServerAlphabet, MaxStrLen) \cup { <<"@","f">> },
        it \in BOOLEAN }

InitNS == \E a \in NameServerCommandLines : InitWith(a)

SpecNS == InitNS /\ [][Next]_vars

\* every --include-fields string up to MaxStrLen with the result verbosities and
\* three strings that are none; the other flags at their defaults
FieldAlphabet == {"t", "l", ","}
OutputCommandLines ==
    { [ArgvDefaults EXCEPT !.includeFields = f, !.resultVerbosity = rv] :
        f \in Strings(FieldAlphabet, MaxStrLen),
        rv \in ResultVerbosities \cup { <<>>, <<"S","H","O","R","T">>, <<"x">> } }

InitOut == \E a \in OutputCommandLines : InitWith(a)

SpecOut == InitOut /\ [][Next]_vars

----------------------------------------------------------------------------
(* Where main() is.                                                        *)

\* the statements of main in program order
Stages ==
    << "start", "lookup", "parse", "logfile", "verbosity", "timeouts", "class",
       "nameservers", "timeformat", "goprocs", "transport", "output", "args",
       "seed", "stdin", "initialize", "dolookups", "finalize", "done" >>

StageNo(p) == CHOOSE i \in 1..Len(Stages) : Stages[i] = p

\* the statement that raises each fatal message
FailedAt(msg) ==
    CASE msg = "No lookup module specified"                 -> "start"
      [] msg = "Invalid lookup module specified"            -> "lookup"
      [] msg = "flag parse error"                           ->
            IF loc.factory = NilFactory THEN "lookup" ELSE "parse"
      [] msg = "Unable to open log file"                    -> "logfile"
      [] msg = "Unknown verbosity level specified"          -> "verbosity"
      [] msg = "Unknown record class specified"             -> "class"
      [] msg \in { "Unable to fetch correct name servers",
                   "Unable to read file", "Emtpy file" }    -> "nameservers"
      [] msg = "Invalid argument for --go-processes"        -> "goprocs"
      [] msg = "TCP Only and UDP Only are conflicting"      -> "transport"
      [] msg = "Invalid result verbosity"                   -> "output"
      [] msg \in { "Unused command line flags",
                   "panic: nil pointer dereference" }       -> "args"
      [] msg = "Specified module does not allow reading from stdin" -> "stdin"
      [] msg = "Factory was unable to initialize"           -> "initialize"
      [] msg = "Unable to run lookups"                      -> "dolookups"
      [] msg = "Factory was unable to finalize"             -> "finalize"

\* the statement main is at, or died in
At == IF pc = "exit" THEN FailedAt(failure) ELSE pc

\* main has completed statement `stage` without dying in it
Passed(stage) == StageNo(At) > StageNo(stage)

\* the names of the hooks invoked so far
HookNames == [i \in 1..Len(calls) |-> calls[i].hook]

TypeOK ==
    /\ pc \in {Stages[i] : i \in 1..Len(Stages)} \cup {"exit"}
    /\ (pc = "exit") = (failure # "")
    /\ Len(calls) <= 3

----------------------------------------------------------------------------
(* What the command line asks for, read off argv alone.                    *)

ModuleRegistered == argv.hasModule /\ ToUpper(argv.module) \in RegisteredLookups
VerbosityInRange == argv.verbosity \in 1..5
ClassRecognised ==
    ToUpper(argv.class) \in
        { <<"I","N","E","T">>, <<"I","N">>, <<"C","S","N","E","T">>, <<"C","S">>,
          <<"C","H","A","O","S">>, <<"C","H">>, <<"H","E","S","I","O","D">>,
          <<"H","S">>, <<"N","O","N","E">>, <<"A","N","Y">> }
GoProcessesValid == argv.goProcesses >= 0
TransportConsistent == ~(argv.tcpOnly /\ argv.udpOnly)
ResultVerbosityValid ==
    argv.resultVerbosity \in
        { <<"s","h","o","r","t">>, <<"n","o","r","m","a","l">>,
          <<"l","o","n","g">>, <<"t","r","a","c","e">> }
NoUnusedArguments ==
    \/ argv.extra = <<>>
    \/ Len(argv.extra) = 1 /\ gc.PassedName = argv.extra[1]
StdinPermitted == argv.inputFile # <<"-">> \/ env.allowStdIn = "yes"

\* the module's Initialize has been invoked
HandoffBegun == calls # <<>>

----------------------------------------------------------------------------
(* C1 *)

\* C1: Initialize (and so DoLookups and Finalize) is invoked only when every
\* validation succeeded: the module is registered, the flags parsed, --verbosity
\* is in 1..5, --class is recognised, --go-processes is not negative, --tcp-only
\* and --udp-only are not both set, --result-verbosity is one of the four tiers,
\* no positional argument is left unused, and the module permits stdin when the
\* input file is "-".
C1_NoPartialConfiguration ==
    HandoffBegun =>
        /\ ModuleRegistered
        /\ env.parse = "ok"
        /\ VerbosityInRange
        /\ ClassRecognised
        /\ GoProcessesValid
        /\ TransportConsistent
        /\ ResultVerbosityValid
        /\ NoUnusedArguments
        /\ StdinPermitted

\* all three hooks have run on a command line that restricts the transport to TCP
\* and names one ad-hoc query
C1_Witness ==
    /\ pc = "done"
    /\ Len(calls) = 3
    /\ argv.tcpOnly /\ ~argv.udpOnly
    /\ Len(argv.extra) = 1

----------------------------------------------------------------------------
(* C2 *)

\* the validations argv alone decides, each with the statement that makes it
ArgvChecks ==
    { "start", "lookup", "verbosity", "class", "goprocs", "transport", "output" }

Invalid(check) ==
    CASE check = "start"     -> ~argv.hasModule
      [] check = "lookup"    -> argv.hasModule /\ ~ModuleRegistered
      [] check = "verbosity" -> ~VerbosityInRange
      [] check = "class"     -> ~ClassRecognised
      [] check = "goprocs"   -> ~GoProcessesValid
      [] check = "transport" -> ~TransportConsistent
      [] check = "output"    -> ~ResultVerbosityValid

\* the stage of the documented order a statement belongs to: 1 registry lookup,
\* 2 flag parse, 3 scalar normalization, 4 name-server resolution, 5 output
\* composition, 6 consistency checks (7: the handoff)
DocumentedStage(stmt) ==
    CASE stmt \in {"start", "lookup"}                                -> 1
      [] stmt = "parse"                                              -> 2
      [] stmt \in {"logfile", "verbosity", "timeouts", "class"}      -> 3
      [] stmt = "nameservers"                                        -> 4
      [] stmt = "output"                                             -> 5
      [] stmt \in {"timeformat", "goprocs", "transport", "args", "seed", "stdin"} -> 6
      [] OTHER                                                       -> 7

----------------------------------------------------------------------------
(* C7 *)

\* main has executed the leftover-argument statement (lines 189-198)
LeftoverArgsExamined == StageNo(At) >= StageNo("args") /\ pc # "args"

\* the three conditions under which one leftover argument is the query name
AdHocEligible ==
    /\ Len(argv.extra) = 1
    /\ env.stdin = "chardev"
    /\ argv.inputFile = <<"-">>

\* C7 as stated: with no leftover argument the ad-hoc name is never set; a
\* leftover argument is accepted, as the ad-hoc name, only when exactly one
\* remains, stdin is a terminal and --input-file is "-"; in every other case with
\* a leftover argument the run fails with the unused-arguments error and never
\* reaches the handoff.
C7_AdHocName ==
    /\ argv.extra = <<>> => gc.PassedName = <<>>
    /\ gc.PassedName # <<>> => AdHocEligible /\ gc.PassedName = argv.extra[1]
    /\ LeftoverArgsExamined /\ argv.extra # <<>> /\ ~AdHocEligible =>
            /\ pc = "exit"
            /\ failure = "Unused command line flags"
            /\ ~HandoffBegun

\* C7 where os.Stdin.Stat() answers: the statement of C7 holds in every run in
\* which the Stat call main makes does not fail.
C7_AdHocNameWhenStatSucceeds ==
    env.stdin # "error" => C7_AdHocName

\* one leftover argument was accepted as the ad-hoc name
C7_Witness ==
    /\ pc = "done"
    /\ gc.PassedName = <<"n","a">>
    /\ env.stdin = "chardev"

----------------------------------------------------------------------------
(* C8 *)

HookOrder == <<"Initialize", "DoLookups", "Finalize">>

HookFailure(hook) ==
    CASE hook = "Initialize" -> "Factory was unable to initialize"
      [] hook = "DoLookups"  -> "Unable to run lookups"
      [] hook = "Finalize"   -> "Factory was unable to finalize"

----------------------------------------------------------------------------
(* C9 *)

\* C9 as stated: the timeouts of a configuration handed to the module are the
\* --timeout and --iteration-timeout seconds as durations, and are not negative.
C9_TimeoutsNonNegative ==
    HandoffBegun =>
        LET conf == calls[1].conf[1] IN
        /\ conf.Timeout = Second * argv.timeout
        /\ conf.IterationTimeout = Second * argv.iterationTimeout
        /\ conf.Timeout >= 0
        /\ conf.IterationTimeout >= 0

----------------------------------------------------------------------------
(* C10 *)

\* C10 as stated: the seed and GOMAXPROCS are each set exactly once on a run
\* that reaches the handoff, before Initialize, and neither is set on a run that
\* ends with a validation failure.
C10_SetExactlyOnceAfterValidation ==
    /\ pc = "initialize" \/ HandoffBegun =>
            proc.seedCalls = 1 /\ proc.gomaxprocsCalls = 1
    /\ pc = "exit" /\ ~HandoffBegun =>
            proc.seedCalls = 0 /\ proc.gomaxprocsCalls = 0

\* C10, amended: the seed and GOMAXPROCS are each set at most once per run and
\* never after the handoff begins; from the moment Initialize is about to be
\* invoked the seed has been set exactly once, and GOMAXPROCS exactly once, to
\* --go-processes, when --go-processes is positive and not at all when it is 0.
\* Either may have been set on a run that then ends with a validation failure:
\* GOMAXPROCS is set once --go-processes is found non-negative (before the
\* transport, result-verbosity, leftover-argument and stdin checks), the seed
\* once the leftover arguments are accepted (before the stdin check).
C10_SetAtMostOnceBeforeHandoff ==
    /\ proc.seedCalls = IF Passed("seed") THEN 1 ELSE 0
    /\ proc.gomaxprocsCalls =
            IF Passed("goprocs") /\ argv.goProcesses # 0 THEN 1 ELSE 0
    /\ proc.gomaxprocsCalls = 1 =>
            argv.goProcesses > 0 /\ proc.gomaxprocs = argv.goProcesses
    /\ pc = "initialize" \/ HandoffBegun => Passed("seed") /\ Passed("goprocs")

\* GOMAXPROCS and the seed were both set on a run that the stdin check then ended
C10_Witness ==
    /\ pc = "exit"
    /\ failure = "Specified module does not allow reading from stdin"
    /\ proc.seedCalls = 1
    /\ proc.gomaxprocsCalls = 1

----------------------------------------------------------------------------
(* Splitting and port repair, stated by positions.                         *)

Range(s) == {s[i] : i \in 1..Len(s)}

\* where character c stands in s
Positions(s, c) == {i \in 1..Len(s) : s[i] = c}

\* the k-th smallest member of P
NthPosition(P, k) == CHOOSE p \in P : Cardinality({q \in P : q < p}) = k - 1

\* how many pieces the occurrences of c cut s into
PieceCount(s, c) == Cardinality(Positions(s, c)) + 1

\* the k-th piece: what stands between the (k-1)-th and the k-th occurrence of c
Piece(s, c, k) ==
    LET P  == Positions(s, c)
        lo == IF k = 1 THEN 0 ELSE NthPosition(P, k - 1)
        hi == IF k = Cardinality(P) + 1 THEN Len(s) + 1 ELSE NthPosition(P, k)
    IN  SubSeq(s, lo + 1, hi - 1)

\* s from its first to its last character outside `cutset`
Core(s, cutset) ==
    LET I == {i \in 1..Len(s) : s[i] \notin cutset} IN
    IF I = {} THEN <<>>
    ELSE SubSeq(s, CHOOSE i \in I : \A j \in I : i <= j,
                   CHOOSE i \in I : \A j \in I : i >= j)

\* an entry with a ':' as it is, any other without the white space around it and
\* with ":53" after it
Repaired(e) ==
    IF ":" \in Range(e) THEN e
    ELSE Core(e, {" ", "\n", "\t", "\r"}) \o <<":", "5", "3">>

\* main died in the name-server statement
DiedResolving == pc = "exit" /\ At = "nameservers"

----------------------------------------------------------------------------
(* C3 *)

InlineDesignation == argv.nameServers # <<>> /\ argv.nameServers[1] # "@"

\* C3: for an inline --name-servers list the resolution never fails, and the
\* resolved list has one entry per comma-separated element, in order: an element
\* without ':' as its white-space-trimmed text followed by ":53", an element with
\* ':' unchanged; every entry contains ':'.
C3_InlineList ==
    InlineDesignation =>
        /\ ~DiedResolving
        /\ Passed("nameservers") =>
              /\ Len(gc.NameServers) = PieceCount(argv.nameServers, ",")
              /\ \A k \in 1..Len(gc.NameServers) :
                    /\ gc.NameServers[k] = Repaired(Piece(argv.nameServers, ",", k))
                    /\ ":" \in Range(gc.NameServers[k])

\* "a,a:" resolved to ["a:53", "a:"]
C3_Witness ==
    /\ pc = "done"
    /\ argv.nameServers = <<"a", ",", "a", ":">>
    /\ gc.NameServers = << <<"a", ":", "5", "3">>, <<"a", ":">> >>

----------------------------------------------------------------------------
(* C4 *)

FileDesignation == argv.nameServers # <<>> /\ argv.nameServers[1] = "@"

\* the lines of a content that remain when its trailing empty lines are dropped
LinesKept(content) ==
    LET n == PieceCount(content, "\n")
        nonEmpty == {k \in 1..n : Piece(content, "\n", k) # <<>>}
    IN  IF nonEmpty = {} THEN 0 ELSE CHOOSE k \in nonEmpty : \A j \in nonEmpty : k >= j

\* the part of C4 both statements share: an unreadable or empty file is fatal,
\* any other content is accepted
C4_FileErrors ==
    /\ env.readFile = "error" => pc = "exit" /\ failure = "Unable to read file"
    /\ env.readFile = "ok" /\ env.fileContent = <<>> =>
            pc = "exit" /\ failure = "Emtpy file"
    /\ env.readFile = "ok" /\ env.fileContent # <<>> => Passed("nameservers")

\* C4 as stated: for @path an unreadable or empty file is fatal; otherwise the
\* content is split on line breaks, its trailing blank lines are dropped, and
\* the list has one entry per remaining line, in order, each repaired.
C4_TrailingBlankLinesStripped ==
    FileDesignation =>
        /\ C4_FileErrors
        /\ Passed("nameservers") =>
              /\ Len(gc.NameServers) = LinesKept(env.fileContent)
              /\ \A k \in 1..Len(gc.NameServers) :
                    gc.NameServers[k] = Repaired(Piece(env.fileContent, "\n", k))

\* C4, amended: for @path an unreadable or empty (zero-length) file is fatal;
\* otherwise every line break at the start and at the end of the content is
\* removed, what is left is split on line breaks, and the list has one entry per
\* piece, in order, each repaired.  A content of line breaks alone leaves one
\* empty piece and the list is the single entry ":53".
C4_LineBreaksTrimmedAtBothEnds ==
    FileDesignation =>
        /\ C4_FileErrors
        /\ Passed("nameservers") =>
              LET core == Core(env.fileContent, {"\n"}) IN
              /\ Len(gc.NameServers) = PieceCount(core, "\n")
              /\ \A k \in 1..Len(gc.NameServers) :
                    gc.NameServers[k] = Repaired(Piece(core, "\n", k))

\* the content "a\na\n" resolved to two entries
C4_Witness ==
    /\ pc = "done"
    /\ env.fileContent = <<"a", "\n", "a", "\n">>
    /\ gc.NameServers = << <<"a", ":", "5", "3">>, <<"a", ":", "5", "3">> >>

----------------------------------------------------------------------------
(* C5 *)

\* the list a designation alone determines
DesignatedList ==
    LET s == IF FileDesignation THEN Core(env.fileContent, {"\n"})
             ELSE argv.nameServers
        c == IF FileDesignation THEN "\n" ELSE ","
    IN  [k \in 1..PieceCount(s, c) |-> Repaired(Piece(s, c, k))]

\* C5: without a designation the list is the root servers in iterative mode and
\* what the resolver configuration returned otherwise, a failed read being
\* fatal; with a designation it is what the designation determines, whatever
\* --iterative is, and neither the root servers nor the resolver configuration
\* are consulted.  NameServersSpecified is false in the first two cases and true
\* in the third.
C5_OneSource ==
    /\ argv.nameServers = <<>> /\ argv.iterative =>
          /\ ~DiedResolving
          /\ env.resolv = "" /\ env.readFile = ""
          /\ Passed("nameservers") =>
                gc.NameServers = RootServers /\ ~gc.NameServersSpecified
    /\ argv.nameServers = <<>> /\ ~argv.iterative =>
          /\ env.readFile = ""
          /\ env.resolv = "error" =>
                pc = "exit" /\ failure = "Unable to fetch correct name servers"
          /\ Passed("nameservers") =>
                /\ env.resolv = "ok"
                /\ gc.NameServers = env.resolvServers
                /\ ~gc.NameServersSpecified
    /\ argv.nameServers # <<>> =>
          /\ env.resolv = ""
          /\ env.readFile # "" <=> FileDesignation /\ StageNo(At) >= StageNo("nameservers")
                                     /\ pc # "nameservers"
          /\ Passed("nameservers") =>
                /\ gc.NameServers = DesignatedList
                /\ gc.NameServersSpecified
                /\ \A k \in 1..Len(gc.NameServers) :
                      gc.NameServers[k] \notin Range(RootServers)
    /\ ~Passed("nameservers") => gc.NameServers = <<>> /\ ~gc.NameServersSpecified

\* an inline designation was resolved in iterative mode
C5_Witness ==
    /\ pc = "done"
    /\ argv.iterative
    /\ argv.nameServers = <<"a", ",", "a">>
    /\ gc.NameServers = << <<"a", ":", "5", "3">>, <<"a", ":", "5", "3">> >>
    /\ gc.NameServersSpecified

----------------------------------------------------------------------------
(* C6 *)

\* C6: with a --result-verbosity among short, normal, long and trace the
\* composition succeeds for every --include-fields, and the output groups are
\* the tier followed by each comma-split element of --include-fields in order
\* (an empty --include-fields gives [tier, ""]); with any other
\* --result-verbosity the composition is fatal and no output group is produced.
C6_OutputGroups ==
    /\ ResultVerbosityValid =>
          /\ ~(pc = "exit" /\ At = "output")
          /\ Passed("output") =>
                /\ Len(gc.OutputGroups) = 1 + PieceCount(argv.includeFields, ",")
                /\ gc.OutputGroups[1] = argv.resultVerbosity
                /\ \A k \in 1..PieceCount(argv.includeFields, ",") :
                      gc.OutputGroups[k + 1] = Piece(argv.includeFields, ",", k)
    /\ ~ResultVerbosityValid =>
          /\ ~Passed("output")
          /\ StageNo(At) >= StageNo("output") /\ pc # "output" =>
                pc = "exit" /\ failure = "Invalid result verbosity"
    /\ ~Passed("output") => gc.OutputGroups = <<>>

\* an empty --include-fields gave [trace, ""]
C6_Witness ==
    /\ pc = "done"
    /\ argv.includeFields = <<>>
    /\ gc.OutputGroups = << <<"t","r","a","c","e">>, <<>> >>
====
